---- MODULE Spec2Model ----
(***************************************************************************)
(* The scenarios TC001..TC010 of testsprite_tests as one state machine.    *)
(* A run picks one scenario; each action is one HTTP call of the scenario  *)
(* together with all the code that processes its response, up to the next  *)
(* call.  The service is the environment: every response is drawn from a   *)
(* small set of shapes (raised, HTTP status, JSON body).                   *)
(***************************************************************************)
EXTENDS Integers, Sequences, FiniteSets, TLC

\* ------------------------------------------------------------------ bounds
NumTokens == 2      \* distinct well-formed tokens the login may return
NumIds == 2         \* distinct well-formed product ids the service may assign
MaxProducts == 2    \* longest product list a listing returns

\* ------------------------------------------------------- JSON values (Python)
Null == [t |-> "null"]
Undecodable == [t |-> "undecodable"]    \* a body on which .json() raises
Unbound == [t |-> "unbound"]            \* a local name not assigned yet
Str(s) == [t |-> "str", s |-> s]
Num(n) == [t |-> "num", n |-> n]
Bool(b) == [t |-> "bool", b |-> b]
\* a dict keeps its keys in order: a sequence of <<key, value>> pairs
Dict(pairs) == [t |-> "dict", d |-> pairs]
List(items) == [t |-> "list", l |-> items]

IsDict(x) == x.t = "dict"
IsList(x) == x.t = "list"
IsStr(x) == x.t = "str"

\* `k in x` for a dict x
Has(x, k) == \E i \in 1..Len(x.d) : x.d[i][1] = k
\* x[k] for a dict x that has k
Item(x, k) == x.d[CHOOSE i \in 1..Len(x.d) : x.d[i][1] = k][2]
\* x.get(k) for a dict x
Get(x, k) == IF Has(x, k) THEN Item(x, k) ELSE Null
\* bool(x)
Truthy(x) ==
    CASE x.t = "str" -> x.s # ""
      [] x.t = "num" -> x.n # 0
      [] x.t = "bool" -> x.b
      [] x.t = "dict" -> Len(x.d) > 0
      [] x.t = "list" -> Len(x.l) > 0
      [] OTHER -> FALSE
\* `x is True`
IsTrue(x) == x = Bool(TRUE)
\* `a or b`
PyOr(a, b) == IF Truthy(a) THEN a ELSE b
\* a copy of dict x with k set to v (k stays in place, or is appended)
WithKey(x, k, v) ==
    IF Has(x, k)
    THEN Dict([i \in 1..Len(x.d) |-> IF x.d[i][1] = k THEN <<k, v>> ELSE x.d[i]])
    ELSE Dict(Append(x.d, <<k, v>>))
\* a copy of dict x without k
WithoutKey(x, k) == Dict(SelectSeq(x.d, LAMBDA p : p[1] # k))

\* ------------------------------------------------------ requests, responses
NoAuth == [t |-> "noauth"]
\* headers = {"Authorization": f"Bearer {token}"}
Bearer(tok) == [t |-> "bearer", tok |-> tok]

Req(step, method, path, auth, id, body) ==
    [step |-> step, method |-> method, path |-> path, auth |-> auth,
     id |-> id, body |-> body]
Resp(status, body) == [raises |-> FALSE, status |-> status, body |-> body]
\* the call itself raises (timeout, connection error)
Raised == [raises |-> TRUE, status |-> 0, body |-> Undecodable]

NoFailure == "none"

\* ---------------------------------------------------------------- state
VARIABLES
    scn,         \* the scenario that runs
    pc,          \* its position: the next step
    token,       \* the local token / admin_token
    headers,     \* the local headers
    product_id,  \* the local product_id
    items,       \* TC010: the local items
    address_id,  \* TC010: the local address_id
    idx,         \* TC005: the position in params_list
    reqs,        \* the requests issued so far
    resps,       \* the response to each of them
    failure,     \* the exception that is propagating (NoFailure: none)
    warnings,    \* the warnings printed
    result       \* "running", "passed" or "failed"

vars == <<scn, pc, token, headers, product_id, items, address_id, idx,
          reqs, resps, failure, warnings, result>>

\* the scenario's verdict: the module-level call passes unless an exception
\* leaves the test function
Outcome(f) == IF f = NoFailure THEN "passed" ELSE "failed"

Send(rq, rs) == reqs' = Append(reqs, rq) /\ resps' = Append(resps, rs)

\* ------------------------------------------- the service's possible answers
Token(i) == Str("tok" \o ToString(i))
Tokens == {Token(i) : i \in 1..NumTokens}
\* what may sit under "token": a token, "", a number, null
TokenVals == Tokens \cup {Str(""), Num(5), Null}

ProductId(i) == Str("p" \o ToString(i))
ProductIds == {ProductId(i) : i \in 1..NumIds}
IdVals == ProductIds \cup {Null}

\* a product the service holds
StoredProduct ==
    Dict(<< <<"name", Str("Tomato")>>, <<"category", Str("Vegetables")>>,
            <<"price", Num(40)>>, <<"unitType", Str("kg")>>,
            <<"unitValue", Num(1)>>, <<"stockQty", Num(10)>> >>)

Person == Dict(<< <<"id", Str("u1")>> >>)
LoginBody(success, tok) ==
    Dict(<< <<"success", success>>, <<"token", tok>>, <<"user", Person>>,
            <<"admin", Person>> >>)
LoginBodies ==
    {LoginBody(Bool(TRUE), tok) : tok \in TokenVals}
      \cup {LoginBody(Bool(FALSE), Token(1)), LoginBody(Num(1), Token(1)),
            Dict(<< <<"success", Bool(TRUE)>> >>),
            Dict(<< <<"success", Bool(TRUE)>>, <<"token", Token(1)>> >>),
            List(<<>>), Undecodable}
LoginResps ==
    {Raised, Resp(401, LoginBody(Bool(FALSE), Null)),
     Resp(201, LoginBody(Bool(TRUE), Token(1)))}
      \cup {Resp(200, b) : b \in LoginBodies}

\* the product as the create response echoes it, with the id the service gave
Echo(payload, id) == Dict(<< <<"id", id>> >> \o payload.d)
CreateBodies(payload) ==
    {Echo(payload, id) : id \in IdVals}
      \cup {payload,
            Dict(payload.d \o << <<"_id", ProductId(1)>> >>),
            Dict(<< <<"product", Echo(payload, ProductId(1))>> >>),
            Dict(<< <<"success", Bool(TRUE)>>,
                    <<"product", Echo(payload, ProductId(1))>> >>),
            Dict(<< <<"data", Echo(payload, ProductId(1))>> >>),
            WithKey(Echo(payload, ProductId(1)), "name", Str("Another name")),
            WithoutKey(Echo(payload, ProductId(1)), "name"),
            Dict(<<>>), List(<<>>), Undecodable}
CreateResps(payload) ==
    {Raised, Resp(400, Dict(<<>>)), Resp(201, Echo(payload, ProductId(1)))}
      \cup {Resp(200, b) : b \in CreateBodies(payload)}

DeleteResps ==
    {Raised, Resp(200, Dict(<<>>)), Resp(204, Undecodable), Resp(404, Dict(<<>>))}

\* a value of the same type as v that differs from it
Changed(v) ==
    CASE v.t = "str" -> Str(v.s \o " (changed)")
      [] v.t = "num" -> Num(v.n + 1)
      [] v.t = "bool" -> Bool(~v.b)
      [] OTHER -> Str("changed")

Keys(x) == {x.d[i][1] : i \in 1..Len(x.d)}

\* what GET /api/products/{id} may return when the service holds `product`
\* under `id`: the product, the product with one field off or missing, the
\* product in an envelope, or no object at all
GetBodies(id, product) ==
    LET e == Echo(product, id) IN
    {e, Dict(<< <<"product", e>> >>),
     Dict(<< <<"product", Str("see data")>> >> \o e.d),
     List(<<>>), Undecodable}
      \cup {WithKey(e, f, Changed(Item(e, f))) : f \in Keys(product)}
      \cup {Dict(<< <<"product", WithKey(e, f, Changed(Item(e, f)))>> >>) :
              f \in Keys(product)}
      \cup {WithoutKey(e, f) : f \in Keys(product)}
GetResps(id, product) ==
    {Raised, Resp(404, Dict(<<>>))}
      \cup {Resp(200, b) : b \in GetBodies(id, product)}

\* the answers to PUT and PATCH: their bodies are decoded and not read
MutateResps(id, product) ==
    {Raised, Resp(400, Dict(<<>>)), Resp(200, Undecodable),
     Resp(200, Echo(product, id)), Resp(201, Echo(product, id))}

\* the entries a product listing may hold: products that carry their id under
\* "id", "_id" or "productId", a product with no id, and a non-object
ListEntries ==
    {Dict(<< <<"id", id>>, <<"name", Str("Tomato")>> >>) : id \in ProductIds}
      \cup {Dict(<< <<"_id", ProductId(1)>> >>),
            Dict(<< <<"productId", ProductId(1)>> >>),
            Dict(<< <<"name", Str("Tomato")>> >>),
            Str("tomato")}
\* the lists of at most n entries
RECURSIVE ListsUpTo(_)
ListsUpTo(n) ==
    IF n = 0 THEN {<<>>}
    ELSE ListsUpTo(n - 1)
           \cup {Append(l, e) : l \in {m \in ListsUpTo(n - 1) : Len(m) = n - 1},
                                e \in ListEntries}
ProductLists == {List(l) : l \in ListsUpTo(MaxProducts)}
ListBodies ==
    ProductLists
      \cup {Dict(<< <<"products", l>> >>) : l \in ProductLists}
      \cup {Dict(<< <<"data", l>> >>) : l \in ProductLists}
      \cup {Dict(<< <<"products", Str("none")>>,
                    <<"data", List(<< Dict(<< <<"id", ProductId(1)>> >>) >>)>> >>),
            Dict(<< <<"message", Str("ok")>> >>), Str("ok"), Undecodable}
ListResps ==
    {Raised, Resp(500, Dict(<<>>)),
     Resp(201, List(<< Dict(<< <<"id", ProductId(1)>> >>) >>))}
      \cup {Resp(200, b) : b \in ListBodies}

AddressResps ==
    {Raised, Resp(404, Dict(<<>>)), Resp(200, Undecodable), Resp(200, Dict(<<>>)),
     Resp(200, Dict(<< <<"id", Str("addr1")>> >>)),
     Resp(200, Dict(<< <<"id", Num(3)>> >>)),
     Resp(200, List(<<>>)), Resp(200, Num(7))}

OrderBodies ==
    {Dict(<< <<"success", Bool(TRUE)>>, <<k, Str("o1")>> >>) :
       k \in {"order", "id", "orderId", "message"}}
      \cup {Dict(<< <<"success", Bool(FALSE)>>, <<"order", Str("o1")>> >>),
            Dict(<< <<"success", Num(1)>>, <<"id", Str("o1")>> >>),
            Dict(<< <<"order", Str("o1")>> >>),
            List(<<>>), Undecodable}
OrderResps ==
    {Raised, Resp(400, Dict(<<>>)),
     Resp(201, Dict(<< <<"success", Bool(TRUE)>>, <<"id", Str("o1")>> >>))}
      \cup {Resp(200, b) : b \in OrderBodies}

CustomerCredentials ==
    Dict(<< <<"identifier", Str("sam93901704@gmail.com")>>,
            <<"password", Str("Sameer@123")>> >>)

\* the local token after the login response was processed with failure f: the
\* name is assigned right before the assertion on the token
LoginToken(f, r, old) ==
    IF f \in {NoFailure, "login: token"} THEN Get(r.body, "token") ELSE old

AdminCredentials ==
    Dict(<< <<"username", Str("sam93901704@gmail.com")>>,
            <<"password", Str("Sameer@123")>> >>)

\* =================================================================== TC001
\* email and phone end in digits of a fresh uuid4, one per run
TC001_payload ==
    Dict(<< <<"name", Str("Test User")>>,
            <<"email", Str("testuser_<uuid4>@example.com")>>,
            <<"phone", Str("99999<uuid4>")>>,
            <<"password", Str("strongPass123")>> >>)

TC001_EchoedUser ==
    Dict(<< <<"id", Str("u1")>>,
            <<"name", Item(TC001_payload, "name")>>,
            <<"email", Item(TC001_payload, "email")>>,
            <<"phone", Item(TC001_payload, "phone")>> >>)
SignupBody(success, user, tok) ==
    Dict(<< <<"success", success>>, <<"user", user>>, <<"token", tok>> >>)
SignupBodies ==
    {SignupBody(Bool(TRUE), TC001_EchoedUser, tok) : tok \in TokenVals}
      \cup {SignupBody(Bool(TRUE), WithKey(TC001_EchoedUser, f,
                                           Changed(Item(TC001_EchoedUser, f))),
                       Token(1)) : f \in {"name", "email", "phone"}}
      \cup {SignupBody(Bool(TRUE), WithoutKey(TC001_EchoedUser, f), Token(1)) :
              f \in {"name", "email", "phone"}}
      \cup {WithoutKey(SignupBody(Bool(TRUE), TC001_EchoedUser, Token(1)), k) :
              k \in {"success", "user", "token"}}
      \cup {SignupBody(Bool(FALSE), TC001_EchoedUser, Token(1)),
            SignupBody(Num(1), TC001_EchoedUser, Token(1)),
            SignupBody(Bool(TRUE), Str("user"), Token(1)),
            List(<<>>), Undecodable}
SignupResps ==
    {Raised, Resp(400, SignupBody(Bool(FALSE), Null, Null)),
     Resp(201, SignupBody(Bool(TRUE), TC001_EchoedUser, Token(1)))}
      \cup {Resp(200, b) : b \in SignupBodies}

\* TC001_SignupCheck without the type and length test on the token
TC001_SignupCheckAnyToken(r) ==
    IF r.raises THEN "signup: Request to signup endpoint failed"
    ELSE IF r.status # 200 THEN "signup: status code"
    ELSE IF r.body = Undecodable THEN "signup: undecodable JSON"
    ELSE IF ~IsDict(r.body) THEN "signup: Response is not a JSON object"
    ELSE IF ~(Has(r.body, "success") /\ IsTrue(Item(r.body, "success")))
    THEN "signup: Signup success flag missing or false"
    ELSE IF ~(Has(r.body, "user") /\ IsDict(Item(r.body, "user")))
    THEN "signup: User object missing or not a dict"
    ELSE IF ~(Has(Item(r.body, "user"), "email")
              /\ Item(Item(r.body, "user"), "email") = Item(TC001_payload, "email"))
    THEN "signup: User email mismatch"
    ELSE IF ~(Has(Item(r.body, "user"), "phone")
              /\ Item(Item(r.body, "user"), "phone") = Item(TC001_payload, "phone"))
    THEN "signup: User phone mismatch"
    ELSE IF ~(Has(Item(r.body, "user"), "name")
              /\ Item(Item(r.body, "user"), "name") = Item(TC001_payload, "name"))
    THEN "signup: User name mismatch"
    ELSE IF ~Has(r.body, "token")
    THEN "signup: Token missing or invalid"
    ELSE NoFailure

TC001_SignupCheck(r) ==
    IF r.raises THEN "signup: Request to signup endpoint failed"
    ELSE IF r.status # 200 THEN "signup: status code"
    ELSE IF r.body = Undecodable THEN "signup: undecodable JSON"
    ELSE IF ~IsDict(r.body) THEN "signup: Response is not a JSON object"
    ELSE IF ~(Has(r.body, "success") /\ IsTrue(Item(r.body, "success")))
    THEN "signup: Signup success flag missing or false"
    ELSE IF ~(Has(r.body, "user") /\ IsDict(Item(r.body, "user")))
    THEN "signup: User object missing or not a dict"
    ELSE IF ~(Has(Item(r.body, "user"), "email")
              /\ Item(Item(r.body, "user"), "email") = Item(TC001_payload, "email"))
    THEN "signup: User email mismatch"
    ELSE IF ~(Has(Item(r.body, "user"), "phone")
              /\ Item(Item(r.body, "user"), "phone") = Item(TC001_payload, "phone"))
    THEN "signup: User phone mismatch"
    ELSE IF ~(Has(Item(r.body, "user"), "name")
              /\ Item(Item(r.body, "user"), "name") = Item(TC001_payload, "name"))
    THEN "signup: User name mismatch"
    ELSE IF ~(Has(r.body, "token") /\ IsStr(Item(r.body, "token"))
              /\ Item(r.body, "token") # Str(""))
    THEN "signup: Token missing or invalid"
    ELSE NoFailure

TC001_Signup ==
    /\ scn = "TC001" /\ pc = "signup"
    /\ \E r \in SignupResps :
         /\ Send(Req("signup", "POST", "/api/auth/signup", NoAuth, Null,
                     TC001_payload), r)
         /\ failure' = TC001_SignupCheck(r)
    /\ result' = Outcome(failure')
    /\ pc' = "done"
    /\ UNCHANGED <<scn, token, headers, product_id, items, address_id, idx,
                   warnings>>

\* =================================================================== TC002
TC002_LoginCheck(r) ==
    IF r.raises THEN "login: Request failed"
    ELSE IF r.status # 200 THEN "login: status code"
    ELSE IF r.body = Undecodable THEN "login: Response content is not valid JSON"
    ELSE IF ~IsDict(r.body) THEN "login: Response JSON is not a dictionary"
    ELSE IF ~IsTrue(Get(r.body, "success")) THEN "login: Login success flag is not true"
    ELSE IF ~(Has(r.body, "token") /\ IsStr(Item(r.body, "token"))
              /\ Truthy(Item(r.body, "token")))
    THEN "login: Token missing or invalid in the response"
    ELSE IF ~(Has(r.body, "user") /\ IsDict(Item(r.body, "user")))
    THEN "login: User object missing or invalid in the response"
    ELSE NoFailure

TC002_Login ==
    /\ scn = "TC002" /\ pc = "login"
    /\ \E r \in LoginResps :
         /\ Send(Req("login", "POST", "/api/auth/login", NoAuth, Null,
                     CustomerCredentials), r)
         /\ failure' = TC002_LoginCheck(r)
    /\ result' = Outcome(failure')
    /\ pc' = "done"
    /\ UNCHANGED <<scn, token, headers, product_id, items, address_id, idx,
                   warnings>>

\* =================================================================== TC003
TC003_LoginCheck(r) ==
    IF r.raises THEN "login: Request failed"
    ELSE IF r.status # 200 THEN "login: status code"
    ELSE IF r.body = Undecodable THEN "login: Response is not a valid JSON"
    ELSE IF ~IsDict(r.body) THEN "login: Response JSON is not an object"
    ELSE IF ~(Has(r.body, "success") /\ IsTrue(Item(r.body, "success")))
    THEN "login: 'success' field missing or not True in response"
    ELSE IF ~(Has(r.body, "admin") /\ IsDict(Item(r.body, "admin")))
    THEN "login: 'admin' field missing or not an object in response"
    ELSE IF ~(Has(r.body, "token") /\ IsStr(Item(r.body, "token"))
              /\ Item(r.body, "token") # Str(""))
    THEN "login: 'token' field missing or empty in response"
    ELSE NoFailure

TC003_Login ==
    /\ scn = "TC003" /\ pc = "login"
    /\ \E r \in LoginResps :
         /\ Send(Req("login", "POST", "/api/auth/admin/login", NoAuth, Null,
                     AdminCredentials), r)
         /\ failure' = TC003_LoginCheck(r)
    /\ result' = Outcome(failure')
    /\ pc' = "done"
    /\ UNCHANGED <<scn, token, headers, product_id, items, address_id, idx,
                   warnings>>

\* =================================================================== TC004
CurrentUser ==
    Dict(<< <<"id", Str("u1")>>, <<"name", Str("Sam")>>,
            <<"email", Str("sam93901704@gmail.com")>>, <<"phone", Null>>,
            <<"profilePic", Null>>, <<"phoneVerified", Bool(FALSE)>> >>)
MeBodies ==
    {Dict(<< <<"user", CurrentUser>> >>), Dict(<< <<"user", Str("sam")>> >>),
     Dict(<< <<"user", Null>> >>), Dict(<<>>), CurrentUser, List(<<>>), Undecodable}
      \cup {Dict(<< <<"user", WithoutKey(CurrentUser, k)>> >>) : k \in Keys(CurrentUser)}
      \cup {Dict(<< <<"user", WithKey(CurrentUser, k, v)>> >>) :
              k \in Keys(CurrentUser), v \in {Null, Num(1), Str("x"), Bool(TRUE)}}
MeResps == {Raised, Resp(401, Dict(<<>>))} \cup {Resp(200, b) : b \in MeBodies}

\* assert token and isinstance(token, str)
TC004_TokenOk(tok) == Truthy(tok) /\ IsStr(tok)

TC004_LoginCheck(r) ==
    IF r.raises THEN "login: Request failed"
    ELSE IF r.status >= 400 THEN "login: Request failed"
    ELSE IF r.body = Undecodable THEN "login: undecodable JSON"
    ELSE IF ~IsDict(r.body) THEN "login: not an object"
    ELSE IF ~IsTrue(Get(r.body, "success")) THEN "login: Login success flag mismatch"
    ELSE IF ~TC004_TokenOk(Get(r.body, "token"))
    THEN "login: Token not found in login response"
    ELSE NoFailure

\* x is None or isinstance(x, str)
NoneOrStr(x) == x = Null \/ IsStr(x)

TC004_MeCheck(r) ==
    IF r.raises THEN "me: Request failed"
    ELSE IF r.status >= 400 THEN "me: Request failed"
    ELSE IF r.body = Undecodable THEN "me: undecodable JSON"
    ELSE IF ~IsDict(r.body) THEN "me: not an object"
    ELSE IF Get(r.body, "user") = Null THEN "me: User field missing in response"
    ELSE IF ~IsDict(Get(r.body, "user")) THEN "me: User field is not an object"
    ELSE LET user == Get(r.body, "user") IN
      IF ~(Has(user, "id") /\ IsStr(Item(user, "id")))
      THEN "me: User id missing or not string"
      ELSE IF ~(Has(user, "name") /\ NoneOrStr(Item(user, "name")))
      THEN "me: User name missing or invalid"
      ELSE IF ~(Has(user, "email") /\ IsStr(Item(user, "email")))
      THEN "me: User email missing or not string"
      ELSE IF ~(Has(user, "phone") /\ NoneOrStr(Item(user, "phone")))
      THEN "me: User phone missing or invalid"
      ELSE IF ~(Has(user, "profilePic") /\ NoneOrStr(Item(user, "profilePic")))
      THEN "me: User profilePic missing or invalid"
      ELSE IF ~(Has(user, "phoneVerified") /\ Item(user, "phoneVerified").t = "bool")
      THEN "me: User phoneVerified missing or not boolean"
      ELSE NoFailure

TC004_Login ==
    /\ scn = "TC004" /\ pc = "login"
    /\ \E r \in LoginResps :
         LET f == TC004_LoginCheck(r) IN
         /\ Send(Req("login", "POST", "/api/auth/admin/login", NoAuth, Null,
                     AdminCredentials), r)
         /\ failure' = f
         /\ token' = LoginToken(f, r, token)
         /\ IF f = NoFailure
            THEN headers' = Bearer(Get(r.body, "token")) /\ pc' = "me"
                 /\ UNCHANGED result
            ELSE UNCHANGED headers /\ pc' = "done" /\ result' = Outcome(f)
    /\ UNCHANGED <<scn, product_id, items, address_id, idx, warnings>>

TC004_Me ==
    /\ scn = "TC004" /\ pc = "me"
    /\ \E r \in MeResps :
         /\ Send(Req("me", "GET", "/api/auth/me", headers, Null, Null), r)
         /\ failure' = TC004_MeCheck(r)
    /\ result' = Outcome(failure')
    /\ pc' = "done"
    /\ UNCHANGED <<scn, token, headers, product_id, items, address_id, idx,
                   warnings>>

\* =================================================================== TC005
TC005_params_list ==
    << Dict(<< <<"page", Num(1)>>, <<"limit", Num(5)>> >>),
       Dict(<< <<"category", Str("vegetables")>> >>),
       Dict(<< <<"search", Str("tomato")>> >>),
       Dict(<< <<"in_stock", Str("true")>> >>),
       Dict(<< <<"in_stock", Str("false")>> >>),
       Dict(<< <<"page", Num(2)>>, <<"limit", Num(3)>>, <<"category", Str("fruits")>>,
               <<"search", Str("apple")>>, <<"in_stock", Str("1")>> >>) >>

\* the shapes of a listing; TC005 does not read the entries of the list
AProductList == List(<< Dict(<< <<"id", ProductId(1)>>, <<"name", Str("Tomato")>> >>) >>)
ShapeBodies ==
    {AProductList, List(<<>>),
     Dict(<< <<"products", AProductList>> >>),
     Dict(<< <<"data", AProductList>> >>),
     Dict(<< <<"message", Str("ok")>> >>),
     Dict(<< <<"products", Str("none")>> >>),
     Dict(<< <<"data", Null>> >>),
     Dict(<< <<"products", Str("none")>>, <<"data", AProductList>> >>),
     Str("ok"), Undecodable}
ShapeResps ==
    {Raised, Resp(500, Dict(<<>>)), Resp(201, AProductList)}
      \cup {Resp(200, b) : b \in ShapeBodies}

TC005_ListCheck(r) ==
    IF r.raises THEN "list: HTTP request failed"
    ELSE IF r.status # 200 THEN "list: status"
    ELSE IF r.body = Undecodable THEN "list: undecodable JSON"
    ELSE IF ~(IsDict(r.body) \/ IsList(r.body))
    THEN "list: Response JSON is not a dict or list"
    ELSE IF IsDict(r.body) /\ Has(r.body, "products")
    THEN IF IsList(Item(r.body, "products")) THEN NoFailure
         ELSE "list: 'products' key is not a list"
    ELSE IF IsDict(r.body) /\ Has(r.body, "data")
    THEN IF IsList(Item(r.body, "data")) THEN NoFailure
         ELSE "list: 'data' key is not a list"
    ELSE NoFailure

\* one turn of the loop over params_list
TC005_List ==
    /\ scn = "TC005" /\ pc = "list"
    /\ \E r \in ShapeResps :
         LET f == TC005_ListCheck(r) IN
         /\ Send(Req("list", "GET", "/api/products", NoAuth, Null,
                     TC005_params_list[idx]), r)
         /\ failure' = f
         /\ IF f # NoFailure \/ idx = Len(TC005_params_list)
            THEN result' = Outcome(f) /\ pc' = "done" /\ UNCHANGED idx
            ELSE idx' = idx + 1 /\ UNCHANGED <<result, pc>>
    /\ UNCHANGED <<scn, token, headers, product_id, items, address_id, warnings>>

\* =================================================================== TC006
\* the first entry's id, of a bare list or of the list under "products" or
\* "data"; reading it raises if that entry of a wrapped list is no object
TC006_ListCheck(r) ==
    IF r.raises \/ r.status >= 400 \/ r.body = Undecodable
    THEN [fail |-> "list: Failed to get product list", product_id |-> Unbound]
    ELSE LET b == r.body
             wrapped ==
               IF ~IsDict(b) THEN Null
               ELSE IF Has(b, "products") /\ IsList(Item(b, "products"))
                       /\ Len(Item(b, "products").l) > 0
               THEN Item(b, "products")
               ELSE IF Has(b, "data") /\ IsList(Item(b, "data"))
                       /\ Len(Item(b, "data").l) > 0
               THEN Item(b, "data")
               ELSE Null
             pid ==
               IF IsList(b) /\ Len(b.l) > 0
               THEN IF IsDict(b.l[1]) THEN Get(b.l[1], "id") ELSE Null
               ELSE IF wrapped # Null /\ IsDict(wrapped.l[1])
               THEN Get(wrapped.l[1], "id")
               ELSE Null
         IN IF wrapped # Null /\ ~IsDict(wrapped.l[1])
            THEN [fail |-> "list: entry is not an object", product_id |-> Null]
            ELSE IF ~Truthy(pid)
            THEN [fail |-> "list: No product ID found to test get product by id",
                  product_id |-> pid]
            ELSE [fail |-> NoFailure, product_id |-> pid]

TC006_required_fields == <<"name", "category", "price", "unitType", "unitValue">>

TC006_DetailCheck(r, pid) ==
    IF r.raises THEN "detail: Request failed"
    ELSE IF r.status >= 400 THEN "detail: HTTP error occurred"
    ELSE IF r.body = Undecodable THEN "detail: undecodable JSON"
    ELSE IF ~Truthy(r.body) THEN "detail: Empty response for product detail"
    ELSE IF ~IsDict(r.body) THEN "detail: Unexpected product detail response format"
    ELSE IF ~Has(r.body, "id") THEN "detail: 'id' field missing in product detail"
    ELSE IF Item(r.body, "id") # pid
    THEN "detail: Product ID in response does not match requested ID"
    ELSE IF \E i \in 1..Len(TC006_required_fields) :
              ~Has(r.body, TC006_required_fields[i])
    THEN "detail: Mandatory field missing in product detail"
    ELSE NoFailure

DetailResps(id) ==
    GetResps(id, StoredProduct)
      \cup {Resp(200, Echo(StoredProduct, Str("another id"))),
            Resp(200, StoredProduct), Resp(200, Dict(<<>>)),
            Resp(200, List(<< Echo(StoredProduct, id) >>))}

TC006_List ==
    /\ scn = "TC006" /\ pc = "list"
    /\ \E r \in ListResps :
         LET c == TC006_ListCheck(r) IN
         /\ Send(Req("list", "GET", "/api/products", NoAuth, Null, Null), r)
         /\ failure' = c.fail
         /\ product_id' = c.product_id
         /\ IF c.fail = NoFailure
            THEN pc' = "detail" /\ UNCHANGED result
            ELSE pc' = "done" /\ result' = Outcome(c.fail)
    /\ UNCHANGED <<scn, token, headers, items, address_id, idx, warnings>>

TC006_Detail ==
    /\ scn = "TC006" /\ pc = "detail"
    /\ \E r \in DetailResps(product_id) :
         /\ Send(Req("detail", "GET", "/api/products/{product_id}", NoAuth,
                     product_id, Null), r)
         /\ failure' = TC006_DetailCheck(r, product_id)
    /\ result' = Outcome(failure')
    /\ pc' = "done"
    /\ UNCHANGED <<scn, token, headers, product_id, items, address_id, idx,
                   warnings>>

\* =================================================================== TC007
\* unitValue is kept in tenths (1.0 is 10)
TC007_product_data ==
    Dict(<< <<"name", Str("Fresh Organic Tomatoes")>>,
            <<"description", Str("Ripe, juicy and fresh organic tomatoes from local farms.")>>,
            <<"category", Str("Vegetables")>>,
            <<"price", Num(120)>>,
            <<"unitType", Str("kg")>>,
            <<"unitValue", Num(10)>>,
            <<"stockQty", Num(50)>>,
            <<"imageUrl", Str("https://example.com/images/tomatoes.jpg")>>,
            <<"isActive", Bool(TRUE)>> >>)

\* try ... finally: after a step of the try block control goes on to `next`,
\* or into the finally block when the step raised f
TC007_Goto(f, next) == IF f = NoFailure THEN next ELSE "cleanup"

\* assert token and isinstance(token, str)
TC007_TokenOk(tok) == Truthy(tok) /\ IsStr(tok)

TC007_LoginCheck(r) ==
    IF r.raises THEN "login: request raised"
    ELSE IF r.status >= 400 THEN "login: HTTP status"
    ELSE IF r.body = Undecodable THEN "login: undecodable JSON"
    ELSE IF ~IsDict(r.body) THEN "login: not an object"
    ELSE IF ~IsTrue(Get(r.body, "success")) THEN "login: success flag"
    ELSE IF ~TC007_TokenOk(Get(r.body, "token")) THEN "login: token"
    ELSE NoFailure

\* the create response, processed: the failure raised and product_id as the
\* code leaves it
TC007_CreateCheck(r) ==
    IF r.raises THEN [fail |-> "create: request raised", product_id |-> Unbound]
    ELSE IF r.status >= 400 THEN [fail |-> "create: HTTP status", product_id |-> Unbound]
    ELSE IF r.body = Undecodable
    THEN [fail |-> "create: undecodable JSON", product_id |-> Unbound]
    ELSE IF ~IsDict(r.body) THEN [fail |-> "create: not an object", product_id |-> Unbound]
    ELSE IF ~(Has(r.body, "name")
              /\ Item(r.body, "name") = Item(TC007_product_data, "name"))
    THEN [fail |-> "create: name", product_id |-> Unbound]
    ELSE \* assert product_id or True: never fails
         [fail |-> NoFailure,
          product_id |-> PyOr(PyOr(Get(r.body, "id"), Get(r.body, "_id")), Null)]

\* if 'product_id' in locals() and product_id
TC007_ShouldDelete(pid) == pid # Unbound /\ Truthy(pid)

\* the warnings the cleanup prints for a DELETE response
TC007_CleanupWarns(r) == IF ~r.raises /\ r.status \notin {200, 204} THEN 1 ELSE 0

\* the exception that leaves the finally block: except Exception: pass
TC007_CleanupOutcome(f, r) == f

TC007_Login ==
    /\ scn = "TC007" /\ pc = "login"
    /\ \E r \in LoginResps :
         LET f == TC007_LoginCheck(r) IN
         /\ Send(Req("login", "POST", "/api/auth/admin/login", NoAuth, Null,
                     AdminCredentials), r)
         /\ failure' = f
         /\ token' = LoginToken(f, r, token)
         /\ headers' = IF f = NoFailure THEN Bearer(Get(r.body, "token")) ELSE headers
         /\ pc' = TC007_Goto(f, "create")
    /\ UNCHANGED <<scn, product_id, items, address_id, idx, warnings, result>>

TC007_Create ==
    /\ scn = "TC007" /\ pc = "create"
    /\ \E r \in CreateResps(TC007_product_data) :
         LET c == TC007_CreateCheck(r) IN
         /\ Send(Req("create", "POST", "/api/admin/products", headers, Null,
                     TC007_product_data), r)
         /\ failure' = c.fail
         /\ product_id' = c.product_id
         /\ pc' = TC007_Goto(c.fail, "cleanup")
    /\ UNCHANGED <<scn, token, headers, items, address_id, idx, warnings, result>>

TC007_Cleanup ==
    /\ scn = "TC007" /\ pc = "cleanup"
    /\ IF TC007_ShouldDelete(product_id)
       THEN \E r \in DeleteResps :
              /\ Send(Req("delete", "DELETE", "/api/admin/products/{product_id}",
                          headers, product_id, Null), r)
              /\ warnings' = warnings + TC007_CleanupWarns(r)
              /\ failure' = TC007_CleanupOutcome(failure, r)
       ELSE UNCHANGED <<reqs, resps, warnings, failure>>
    /\ result' = Outcome(failure')
    /\ pc' = "done"
    /\ UNCHANGED <<scn, token, headers, product_id, items, address_id, idx>>

\* =================================================================== TC008
TC008_new_product_payload ==
    Dict(<< <<"name", Str("Test Product Update")>>,
            <<"description", Str("Initial description")>>,
            <<"category", Str("Test Category")>>,
            <<"price", Num(100)>>,
            <<"unitType", Str("kg")>>,
            <<"unitValue", Num(10)>>,
            <<"stockQty", Num(50)>>,
            <<"imageUrl", Str("http://example.com/image.jpg")>>,
            <<"isActive", Bool(TRUE)>> >>)

\* unitValue is kept in tenths (2.5 is 25)
TC008_update_payload ==
    Dict(<< <<"name", Str("Updated Product Name")>>,
            <<"description", Str("Updated description of the product")>>,
            <<"category", Str("Updated Category")>>,
            <<"price", Num(150)>>,
            <<"unitType", Str("piece")>>,
            <<"unitValue", Num(25)>>,
            <<"stockQty", Num(75)>>,
            <<"imageUrl", Str("http://example.com/updated-image.jpg")>>,
            <<"isActive", Bool(FALSE)>> >>)

\* TC008_Goto with the cleanup after the try block, not in a finally block
TC008_GotoNoFinally(f, next) == IF f = NoFailure THEN next ELSE "done"

\* try ... finally (lines 44-96): after a step of the try block control goes
\* on to `next`, or into the finally block when the step raised f
TC008_Goto(f, next) == IF f = NoFailure THEN next ELSE "cleanup"

\* assert token, "Missing token in login response"
TC008_TokenOk(tok) == Truthy(tok)

TC008_LoginCheck(r) ==
    IF r.raises THEN "login: request raised"
    ELSE IF r.status >= 400 THEN "login: HTTP status"
    ELSE IF r.body = Undecodable THEN "login: undecodable JSON"
    ELSE IF ~IsDict(r.body) THEN "login: not an object"
    ELSE IF ~IsTrue(Get(r.body, "success")) THEN "login: success flag"
    ELSE IF ~TC008_TokenOk(Get(r.body, "token")) THEN "login: token"
    ELSE NoFailure

\* the id the code finds in a decoded create response: at the top level, or
\* in the object under the first key
TC008_ExtractId(body) ==
    IF Has(body, "id") THEN Item(body, "id")
    ELSE IF Len(body.d) > 0 /\ IsDict(body.d[1][2]) /\ Has(body.d[1][2], "id")
    THEN Item(body.d[1][2], "id")
    ELSE Null

TC008_CreateCheck(r) ==
    IF r.raises THEN [fail |-> "create: request raised", product_id |-> Null]
    ELSE IF r.status >= 400 THEN [fail |-> "create: HTTP status", product_id |-> Null]
    ELSE IF r.body = Undecodable
    THEN [fail |-> "create: undecodable JSON", product_id |-> Null]
    ELSE IF r.status # 200 THEN [fail |-> "create: status code", product_id |-> Null]
    ELSE IF ~IsDict(r.body) THEN [fail |-> "create: not an object", product_id |-> Null]
    ELSE IF ~Truthy(TC008_ExtractId(r.body))
    THEN [fail |-> "create: no id", product_id |-> TC008_ExtractId(r.body)]
    ELSE [fail |-> NoFailure, product_id |-> TC008_ExtractId(r.body)]

TC008_UpdateCheck(r) ==
    IF r.raises THEN "update: request raised"
    ELSE IF r.status >= 400 THEN "update: HTTP status"
    ELSE IF r.body = Undecodable THEN "update: undecodable JSON"
    ELSE IF r.status # 200 THEN "update: status code"
    ELSE NoFailure

\* TC008_Mismatches without the last assertion, the one on isActive
TC008_MismatchesButLast(body) ==
    {i \in 1..(Len(TC008_update_payload.d) - 1) :
       Get(body, TC008_update_payload.d[i][1]) # TC008_update_payload.d[i][2]}

\* the fields of update_payload, in the order the assertions read them, that
\* the fetched product does not hold with update_payload's value
TC008_Mismatches(body) ==
    {i \in 1..Len(TC008_update_payload.d) :
       Get(body, TC008_update_payload.d[i][1]) # TC008_update_payload.d[i][2]}

TC008_GetCheck(r) ==
    IF r.raises THEN "get: request raised"
    ELSE IF r.status >= 400 THEN "get: HTTP status"
    ELSE IF r.body = Undecodable THEN "get: undecodable JSON"
    ELSE IF ~IsDict(r.body) THEN "get: not an object"
    ELSE IF TC008_Mismatches(r.body) # {}
    THEN LET i == CHOOSE i \in TC008_Mismatches(r.body) :
                    \A j \in TC008_Mismatches(r.body) : i <= j
         IN "get: " \o TC008_update_payload.d[i][1] \o " not updated correctly"
    ELSE NoFailure

\* if product_id
TC008_ShouldDelete(pid) == Truthy(pid)

\* a warning for a status other than 200/204, and one for an exception
TC008_CleanupWarns(r) == IF r.raises \/ r.status \notin {200, 204} THEN 1 ELSE 0

\* TC008_CleanupOutcome with the DELETE outside try ... except
TC008_CleanupRaises(f, r) == IF r.raises THEN "cleanup: request raised" ELSE f

\* the exception that leaves the finally block: the one that entered it
TC008_CleanupOutcome(f, r) == f

\* lines 15-23 run before the try block: a failure ends the scenario at once
TC008_Login ==
    /\ scn = "TC008" /\ pc = "login"
    /\ \E r \in LoginResps :
         LET f == TC008_LoginCheck(r) IN
         /\ Send(Req("login", "POST", "/api/auth/admin/login", NoAuth, Null,
                     AdminCredentials), r)
         /\ failure' = f
         /\ token' = LoginToken(f, r, token)
         /\ IF f = NoFailure
            THEN /\ headers' = Bearer(Get(r.body, "token"))
                 /\ product_id' = Null
                 /\ pc' = "create"
                 /\ UNCHANGED result
            ELSE /\ UNCHANGED <<headers, product_id>>
                 /\ pc' = "done"
                 /\ result' = Outcome(f)
    /\ UNCHANGED <<scn, items, address_id, idx, warnings>>

TC008_Create ==
    /\ scn = "TC008" /\ pc = "create"
    /\ \E r \in CreateResps(TC008_new_product_payload) :
         LET c == TC008_CreateCheck(r) IN
         /\ Send(Req("create", "POST", "/api/admin/products", headers, Null,
                     TC008_new_product_payload), r)
         /\ failure' = c.fail
         /\ product_id' = c.product_id
         /\ pc' = TC008_Goto(c.fail, "update")
    /\ UNCHANGED <<scn, token, headers, items, address_id, idx, warnings, result>>

TC008_Update ==
    /\ scn = "TC008" /\ pc = "update"
    /\ \E r \in MutateResps(product_id, TC008_update_payload) :
         LET f == TC008_UpdateCheck(r) IN
         /\ Send(Req("update", "PUT", "/api/admin/products/{product_id}", headers,
                     product_id, TC008_update_payload), r)
         /\ failure' = f
         /\ pc' = TC008_Goto(f, "get")
    /\ UNCHANGED <<scn, token, headers, product_id, items, address_id, idx,
                   warnings, result>>

TC008_Get ==
    /\ scn = "TC008" /\ pc = "get"
    /\ \E r \in GetResps(product_id, TC008_update_payload) :
         /\ Send(Req("get", "GET", "/api/products/{product_id}", NoAuth,
                     product_id, Null), r)
         /\ failure' = TC008_GetCheck(r)
         /\ pc' = TC008_Goto(TC008_GetCheck(r), "cleanup")
    /\ UNCHANGED <<scn, token, headers, product_id, items, address_id, idx,
                   warnings, result>>

TC008_Cleanup ==
    /\ scn = "TC008" /\ pc = "cleanup"
    /\ IF TC008_ShouldDelete(product_id)
       THEN \E r \in DeleteResps :
              /\ Send(Req("delete", "DELETE", "/api/admin/products/{product_id}",
                          headers, product_id, Null), r)
              /\ warnings' = warnings + TC008_CleanupWarns(r)
              /\ failure' = TC008_CleanupOutcome(failure, r)
       ELSE UNCHANGED <<reqs, resps, warnings, failure>>
    /\ result' = Outcome(failure')
    /\ pc' = "done"
    /\ UNCHANGED <<scn, token, headers, product_id, items, address_id, idx>>

\* =================================================================== TC009
\* the name ends in a fresh uuid4, one per run
TC009_create_payload ==
    Dict(<< <<"name", Str("Test Product <uuid4>")>>,
            <<"category", Str("Vegetables")>>,
            <<"price", Num(100)>>,
            <<"unitType", Str("kg")>>,
            <<"unitValue", Num(1)>>,
            <<"stockQty", Num(50)>>,
            <<"description", Str("Test product description")>>,
            <<"imageUrl", Str("http://example.com/image.jpg")>>,
            <<"isActive", Bool(TRUE)>> >>)

TC009_new_stock_qty == Num(75)

TC009_update_payload == Dict(<< <<"stockQty", TC009_new_stock_qty>> >>)

\* try ... finally: after a step of the try block control goes on to `next`,
\* or into the finally block when the step raised f
TC009_Goto(f, next) == IF f = NoFailure THEN next ELSE "cleanup"

\* assert isinstance(admin_token, str) and admin_token != ""
TC009_TokenOk(tok) == IsStr(tok) /\ tok # Str("")

TC009_LoginCheck(r) ==
    IF r.raises THEN "login: request raised"
    ELSE IF r.status >= 400 THEN "login: HTTP status"
    ELSE IF r.body = Undecodable THEN "login: undecodable JSON"
    ELSE IF ~IsDict(r.body) THEN "login: not an object"
    ELSE IF ~IsTrue(Get(r.body, "success")) THEN "login: success flag"
    ELSE IF ~TC009_TokenOk(Get(r.body, "token")) THEN "login: token"
    ELSE NoFailure

\* the id is read under "product" first, then at the top level; it is not
\* tested for truth
TC009_CreateCheck(r) ==
    IF r.raises THEN [fail |-> "create: request raised", product_id |-> Null]
    ELSE IF r.status >= 400 THEN [fail |-> "create: HTTP status", product_id |-> Null]
    ELSE IF r.body = Undecodable
    THEN [fail |-> "create: undecodable JSON", product_id |-> Null]
    ELSE IF ~IsDict(r.body)
    THEN [fail |-> "create: Product ID not found", product_id |-> Null]
    ELSE IF /\ Has(r.body, "product")
            /\ IsDict(Item(r.body, "product"))
            /\ Has(Item(r.body, "product"), "id")
    THEN [fail |-> NoFailure, product_id |-> Item(Item(r.body, "product"), "id")]
    ELSE IF Has(r.body, "id")
    THEN [fail |-> NoFailure, product_id |-> Item(r.body, "id")]
    ELSE [fail |-> "create: Product ID not found", product_id |-> Null]

\* TC009_PatchCheck without raise_for_status(): an error status is let through
TC009_PatchCheckAnyStatus(r) ==
    IF r.raises THEN "patch: request raised"
    ELSE IF r.body = Undecodable THEN "patch: undecodable JSON"
    ELSE NoFailure

TC009_PatchCheck(r) ==
    IF r.raises THEN "patch: request raised"
    ELSE IF r.status >= 400 THEN "patch: HTTP status"
    ELSE IF r.body = Undecodable THEN "patch: undecodable JSON"
    ELSE IF r.status # 200 THEN "patch: status code"
    ELSE NoFailure

\* product_details: the object under "product" if there is one, else the body
TC009_Details(body) ==
    IF IsDict(body) /\ Has(body, "product") /\ IsDict(Item(body, "product"))
    THEN Item(body, "product")
    ELSE body

\* TC009_GetCheck without the assertion on the value of stockQty
TC009_GetCheckPresence(r) ==
    IF r.raises THEN "get: request raised"
    ELSE IF r.status >= 400 THEN "get: HTTP status"
    ELSE IF r.body = Undecodable THEN "get: undecodable JSON"
    ELSE IF ~IsDict(TC009_Details(r.body)) \/ ~Has(TC009_Details(r.body), "stockQty")
    THEN "get: Response missing stockQty"
    ELSE NoFailure

TC009_GetCheck(r) ==
    IF r.raises THEN "get: request raised"
    ELSE IF r.status >= 400 THEN "get: HTTP status"
    ELSE IF r.body = Undecodable THEN "get: undecodable JSON"
    ELSE IF ~IsDict(TC009_Details(r.body)) \/ ~Has(TC009_Details(r.body), "stockQty")
    THEN "get: Response missing stockQty"
    ELSE IF Item(TC009_Details(r.body), "stockQty") # TC009_new_stock_qty
    THEN "get: stockQty"
    ELSE NoFailure

\* if product_id and admin_token
TC009_ShouldDelete(pid, tok) == Truthy(pid) /\ Truthy(tok)

\* the cleanup prints nothing
TC009_CleanupWarns(r) == 0

\* the exception that leaves the finally block: raise_for_status() is inside
\* try ... except Exception: pass
TC009_CleanupOutcome(f, r) == f

TC009_Login ==
    /\ scn = "TC009" /\ pc = "login"
    /\ \E r \in LoginResps :
         LET f == TC009_LoginCheck(r) IN
         /\ Send(Req("login", "POST", "/api/auth/admin/login", NoAuth, Null,
                     AdminCredentials), r)
         /\ failure' = f
         /\ token' = LoginToken(f, r, token)
         /\ headers' = IF f = NoFailure THEN Bearer(Get(r.body, "token")) ELSE headers
         /\ pc' = TC009_Goto(f, "create")
    /\ UNCHANGED <<scn, product_id, items, address_id, idx, warnings, result>>

TC009_Create ==
    /\ scn = "TC009" /\ pc = "create"
    /\ \E r \in CreateResps(TC009_create_payload) :
         LET c == TC009_CreateCheck(r) IN
         /\ Send(Req("create", "POST", "/api/admin/products", headers, Null,
                     TC009_create_payload), r)
         /\ failure' = c.fail
         /\ product_id' = c.product_id
         /\ pc' = TC009_Goto(c.fail, "patch")
    /\ UNCHANGED <<scn, token, headers, items, address_id, idx, warnings, result>>

TC009_Patch ==
    /\ scn = "TC009" /\ pc = "patch"
    /\ \E r \in MutateResps(product_id,
                            WithKey(TC009_create_payload, "stockQty",
                                    TC009_new_stock_qty)) :
         LET f == TC009_PatchCheck(r) IN
         /\ Send(Req("patch", "PATCH", "/api/admin/products/{id}/stock", headers,
                     product_id, TC009_update_payload), r)
         /\ failure' = f
         /\ pc' = TC009_Goto(f, "get")
    /\ UNCHANGED <<scn, token, headers, product_id, items, address_id, idx,
                   warnings, result>>

TC009_Get ==
    /\ scn = "TC009" /\ pc = "get"
    /\ \E r \in GetResps(product_id,
                         WithKey(TC009_create_payload, "stockQty",
                                 TC009_new_stock_qty)) :
         /\ Send(Req("get", "GET", "/api/products/{product_id}", NoAuth,
                     product_id, Null), r)
         /\ failure' = TC009_GetCheck(r)
         /\ pc' = TC009_Goto(TC009_GetCheck(r), "cleanup")
    /\ UNCHANGED <<scn, token, headers, product_id, items, address_id, idx,
                   warnings, result>>

TC009_Cleanup ==
    /\ scn = "TC009" /\ pc = "cleanup"
    /\ IF TC009_ShouldDelete(product_id, token)
       THEN \E r \in DeleteResps :
              /\ Send(Req("delete", "DELETE", "/api/admin/products/{id}",
                          Bearer(token), product_id, Null), r)
              /\ warnings' = warnings + TC009_CleanupWarns(r)
              /\ failure' = TC009_CleanupOutcome(failure, r)
       ELSE UNCHANGED <<reqs, resps, warnings, failure>>
    /\ result' = Outcome(failure')
    /\ pc' = "done"
    /\ UNCHANGED <<scn, token, headers, product_id, items, address_id, idx>>

\* =================================================================== TC010
\* TC010_Goto with the step's exception swallowed
TC010_GotoOn(f, next) == next

\* try ... finally: after a step of the try block control goes on to `next`,
\* or to session.close() when the step raised f
TC010_Goto(f, next) == IF f = NoFailure THEN next ELSE "close"

\* assert isinstance(token, str) and token
TC010_TokenOk(tok) == IsStr(tok) /\ Truthy(tok)

TC010_LoginCheck(r) ==
    IF r.raises THEN "login: request raised"
    ELSE IF r.status # 200 THEN "login: status code"
    ELSE IF r.body = Undecodable THEN "login: undecodable JSON"
    ELSE IF ~IsDict(r.body) THEN "login: not an object"
    ELSE IF ~IsTrue(Get(r.body, "success")) THEN "login: success flag"
    ELSE IF ~TC010_TokenOk(Get(r.body, "token")) THEN "login: token"
    ELSE NoFailure

\* products_list: the list under "products", else the list under "data", else
\* the body if it is a list, else None
TC010_ProductsList(body) ==
    IF IsDict(body)
    THEN IF Has(body, "products") /\ IsList(Item(body, "products"))
         THEN Item(body, "products")
         ELSE IF IsList(Get(body, "data")) THEN Get(body, "data") ELSE Null
    ELSE IF IsList(body) THEN body ELSE Null

\* product.get("id") or product.get("_id") or product.get("productId") or
\* product.get("id")
TC010_ProductId(p) ==
    PyOr(PyOr(PyOr(Get(p, "id"), Get(p, "_id")), Get(p, "productId")), Get(p, "id"))

\* where the loop over products_list stops: at the first entry that is no
\* object (.get raises) or that has an id (break); 0 if it runs to the end
TC010_LoopStop(l) ==
    LET stops == {i \in 1..Len(l) : ~IsDict(l[i]) \/ Truthy(TC010_ProductId(l[i]))}
    IN IF stops = {} THEN 0
       ELSE CHOOSE i \in stops : \A j \in stops : i <= j

\* TC010_Items with the loop's break left out: every product that has an id,
\* up to the first entry that is no object
TC010_ItemsNoBreak(l) ==
    LET bad == {i \in 1..Len(l) : ~IsDict(l[i])}
        upto == IF bad = {} THEN Len(l)
                ELSE (CHOOSE i \in bad : \A j \in bad : i <= j) - 1
        withId == SelectSeq(SubSeq(l, 1, upto), LAMBDA p : Truthy(TC010_ProductId(p)))
    IN [i \in 1..Len(withId) |->
          Dict(<< <<"productId", TC010_ProductId(withId[i])>>, <<"qty", Num(1)>> >>)]

\* items as the loop leaves it
TC010_Items(l) ==
    IF TC010_LoopStop(l) # 0 /\ IsDict(l[TC010_LoopStop(l)])
    THEN << Dict(<< <<"productId", TC010_ProductId(l[TC010_LoopStop(l)])>>,
                    <<"qty", Num(1)>> >>) >>
    ELSE <<>>

TC010_ProductsCheck(r) ==
    IF r.raises THEN "products: request raised"
    ELSE IF r.status # 200 THEN "products: status code"
    ELSE IF r.body = Undecodable THEN "products: undecodable JSON"
    ELSE IF ~Truthy(TC010_ProductsList(r.body))
    THEN "products: No products available to add to order"
    ELSE IF /\ TC010_LoopStop(TC010_ProductsList(r.body).l) # 0
            /\ ~IsDict(TC010_ProductsList(r.body).l[
                         TC010_LoopStop(TC010_ProductsList(r.body).l)])
    THEN "products: entry is not an object"
    ELSE IF Len(TC010_Items(TC010_ProductsList(r.body).l)) = 0
    THEN "products: No valid productId found in products"
    ELSE NoFailure

\* TC010_AddressCheck with the lookup in a try block that passes over a call
\* that raised
TC010_AddressCheckLenient(r) ==
    IF r.raises \/ r.status # 200 THEN NoFailure
    ELSE IF r.body = Undecodable THEN "address: undecodable JSON"
    ELSE IF Truthy(r.body) /\ r.body.t \in {"num", "bool"}
    THEN "address: not a container"
    ELSE NoFailure

\* the address lookup is optional: any status but 200 is passed over
TC010_AddressCheck(r) ==
    IF r.raises THEN "address: request raised"
    ELSE IF r.status # 200 THEN NoFailure
    ELSE IF r.body = Undecodable THEN "address: undecodable JSON"
    ELSE IF Truthy(r.body) /\ r.body.t \in {"num", "bool"}
    THEN "address: not a container"
    ELSE NoFailure

\* address_id after the lookup
TC010_AddressId(r) ==
    IF /\ TC010_AddressCheck(r) = NoFailure
       /\ r.status = 200
       /\ IsDict(r.body) /\ Has(r.body, "id")
       /\ IsStr(Item(r.body, "id")) /\ Truthy(Item(r.body, "id"))
    THEN Item(r.body, "id")
    ELSE Null

\* order_payload
TC010_OrderPayload(its, addr) ==
    IF Truthy(addr)
    THEN Dict(<< <<"items", List(its)>>, <<"addressId", addr>> >>)
    ELSE Dict(<< <<"items", List(its)>> >>)

TC010_OrderCheck(r) ==
    IF r.raises THEN "order: request raised"
    ELSE IF r.status # 200 THEN "order: status code"
    ELSE IF r.body = Undecodable THEN "order: undecodable JSON"
    ELSE IF ~IsDict(r.body) THEN "order: Order creation unsuccessful"
    ELSE IF ~(Has(r.body, "success") /\ IsTrue(Item(r.body, "success")))
    THEN "order: Order creation unsuccessful"
    ELSE IF ~(Has(r.body, "order") \/ Has(r.body, "id") \/ Has(r.body, "orderId"))
    THEN "order: Order ID missing in response"
    ELSE NoFailure

TC010_Login ==
    /\ scn = "TC010" /\ pc = "login"
    /\ \E r \in LoginResps :
         LET f == TC010_LoginCheck(r) IN
         /\ Send(Req("login", "POST", "/api/auth/login", NoAuth, Null,
                     CustomerCredentials), r)
         /\ failure' = f
         /\ token' = LoginToken(f, r, token)
         /\ headers' = IF f = NoFailure THEN Bearer(Get(r.body, "token")) ELSE headers
         /\ pc' = TC010_Goto(f, "products")
    /\ UNCHANGED <<scn, product_id, items, address_id, idx, warnings, result>>

TC010_Products ==
    /\ scn = "TC010" /\ pc = "products"
    /\ \E r \in ListResps :
         LET f == TC010_ProductsCheck(r) IN
         /\ Send(Req("products", "GET", "/api/products", NoAuth, Null, Null), r)
         /\ failure' = f
         /\ IF f = NoFailure
            THEN /\ items' = List(TC010_Items(TC010_ProductsList(r.body).l))
                 /\ product_id' = TC010_Items(TC010_ProductsList(r.body).l)[1].d[1][2]
            ELSE UNCHANGED <<items, product_id>>
         /\ pc' = TC010_Goto(f, "address")
    /\ UNCHANGED <<scn, token, headers, address_id, idx, warnings, result>>

TC010_Address ==
    /\ scn = "TC010" /\ pc = "address"
    /\ \E r \in AddressResps :
         LET f == TC010_AddressCheck(r) IN
         /\ Send(Req("address", "GET", "/api/user/address", headers, Null, Null), r)
         /\ failure' = f
         /\ address_id' = TC010_AddressId(r)
         /\ pc' = TC010_Goto(f, "order")
    /\ UNCHANGED <<scn, token, headers, product_id, items, idx, warnings, result>>

TC010_Order ==
    /\ scn = "TC010" /\ pc = "order"
    /\ \E r \in OrderResps :
         /\ Send(Req("order", "POST", "/api/orders", headers, Null,
                     TC010_OrderPayload(items.l, address_id)), r)
         /\ failure' = TC010_OrderCheck(r)
         /\ pc' = TC010_Goto(TC010_OrderCheck(r), "close")
    /\ UNCHANGED <<scn, token, headers, product_id, items, address_id, idx,
                   warnings, result>>

\* finally: session.close()
TC010_Close ==
    /\ scn = "TC010" /\ pc = "close"
    /\ result' = Outcome(failure)
    /\ pc' = "done"
    /\ UNCHANGED <<scn, token, headers, product_id, items, address_id, idx,
                   reqs, resps, failure, warnings>>

\* ==================================================================== run
Scenarios ==
    {"TC001", "TC002", "TC003", "TC004", "TC005", "TC006", "TC007", "TC008",
     "TC009", "TC010"}

FirstStep(s) ==
    CASE s = "TC001" -> "signup"
      [] s \in {"TC005", "TC006"} -> "list"
      [] OTHER -> "login"

\* TC009 binds admin_token and product_id to None before its try block
InitLocal(s) == IF s = "TC009" THEN Null ELSE Unbound

Init ==
    /\ scn \in Scenarios
    /\ pc = FirstStep(scn)
    /\ token = InitLocal(scn)
    /\ headers = Unbound
    /\ product_id = InitLocal(scn)
    /\ items = Unbound
    /\ address_id = Unbound
    /\ idx = 1
    /\ reqs = <<>>
    /\ resps = <<>>
    /\ failure = NoFailure
    /\ warnings = 0
    /\ result = "running"

Next ==
    \/ TC001_Signup \/ TC002_Login \/ TC003_Login
    \/ TC004_Login \/ TC004_Me
    \/ TC005_List
    \/ TC006_List \/ TC006_Detail
    \/ TC007_Login \/ TC007_Create \/ TC007_Cleanup
    \/ TC008_Login \/ TC008_Create \/ TC008_Update \/ TC008_Get \/ TC008_Cleanup
    \/ TC009_Login \/ TC009_Create \/ TC009_Patch \/ TC009_Get \/ TC009_Cleanup
    \/ TC010_Login \/ TC010_Products \/ TC010_Address \/ TC010_Order \/ TC010_Close

Spec == Init /\ [][Next]_vars

\* ================================================================ properties
ReqIdx == 1..Len(reqs)
Finished == result # "running"
\* the scenarios that create a product
Creators == {"TC007", "TC008", "TC009"}
\* the create POST was answered with a 2xx status: the service made the product
CreateSucceeded ==
    \E i \in ReqIdx :
      reqs[i].step = "create" /\ ~resps[i].raises /\ resps[i].status \in {200, 201}
DeleteAttempted == \E i \in ReqIdx : reqs[i].method = "DELETE"

\* C1 (as claimed): in TC007, TC008 and TC009, once the create POST has
\* succeeded at the service, a DELETE is attempted on every exit path of the
\* scenario.
C1_DeleteOnEveryExit ==
    (scn \in Creators /\ Finished /\ CreateSucceeded) => DeleteAttempted

\* C1 (amended): in TC007, TC008 and TC009, once the scenario has read a
\* non-empty product id out of the create response, a DELETE for that id is
\* attempted on every exit path, the failing ones included.
C1_DeleteOnceIdExtracted ==
    (scn \in Creators /\ pc = "done" /\ product_id # Unbound /\ Truthy(product_id))
      => \E i \in ReqIdx : reqs[i].method = "DELETE" /\ reqs[i].id = product_id

\* a scenario that failed after it had read the id, and ended with the DELETE
C1_Witness ==
    /\ scn \in Creators /\ Finished /\ failure # NoFailure
    /\ Truthy(product_id) /\ reqs[Len(reqs)].method = "DELETE"
    /\ \E i \in ReqIdx : reqs[i].step \in {"update", "patch", "get"}

\* C2: the verdict of TC007, TC008 and TC009 does not depend on the cleanup
\* DELETE: the cleanup step leaves the propagating failure as it found it, and
\* the scenario passes exactly if no failure was propagating when it began.
C2_CleanupKeepsVerdict ==
    [][(scn \in Creators /\ pc = "cleanup")
         => (failure' = failure /\ result' = Outcome(failure))]_vars

\* a scenario that passed although its DELETE raised
C2_Witness ==
    /\ scn \in Creators /\ result = "passed"
    /\ \E i \in ReqIdx : reqs[i].method = "DELETE" /\ resps[i].raises

\* a step failed in the claim's sense: its call raised or came back with a
\* non-success status, or its processing raised (undecodable JSON, assertion)
C3_StepFailed ==
    \/ failure # NoFailure
    \/ \E i \in ReqIdx : resps[i].raises \/ resps[i].status \notin {200, 201, 204}
C3_OnlyDeleteFollows ==
    \/ reqs' = reqs
    \/ /\ Len(reqs') = Len(reqs) + 1
       /\ reqs'[Len(reqs')].step = "delete"
       /\ \A i \in ReqIdx : reqs'[i] = reqs[i]

\* C3 (as claimed): once any step has failed (call raised, non-success status,
\* undecodable JSON, assertion violated), the only request still issued is the
\* cleanup DELETE.
C3_NoStepAfterFailedStep == [][C3_StepFailed => C3_OnlyDeleteFollows]_vars

\* C3 (amended): once a step has failed the scenario (its call raised, its
\* status was refused, its JSON was undecodable or an assertion was violated),
\* the only request still issued is the cleanup DELETE; a status other than 200
\* from the optional address lookup of TC010 is not such a failure.
C3_NoStepAfterFailure == [][failure # NoFailure => C3_OnlyDeleteFollows]_vars

\* a scenario whose update or patch failed: no re-fetch, and then the DELETE
C3_Witness ==
    /\ Finished /\ failure # NoFailure
    /\ Len(reqs) >= 2 /\ reqs[Len(reqs)].step = "delete"
    /\ reqs[Len(reqs) - 1].step \in {"update", "patch"}

ProtectedPaths ==
    {"/api/auth/me", "/api/admin/products", "/api/admin/products/{product_id}",
     "/api/admin/products/{id}", "/api/admin/products/{id}/stock",
     "/api/user/address", "/api/orders"}
\* the login answered by rs returned success == true and the non-empty string
\* token tok
LoginGave(rs, tok) ==
    /\ ~rs.raises /\ IsDict(rs.body)
    /\ IsTrue(Get(rs.body, "success"))
    /\ Get(rs.body, "token") = tok
    /\ IsStr(tok) /\ tok # Str("")

\* C4: every request to a bearer-protected endpoint is issued only after a
\* login of the same scenario returned success == true with a non-empty string
\* token, and carries exactly that token.
C4_BearerOnlyAfterLogin ==
    \A i \in ReqIdx :
      reqs[i].path \in ProtectedPaths =>
        \E j \in 1..(i - 1) :
          /\ reqs[j].step = "login"
          /\ reqs[i].auth.t = "bearer"
          /\ LoginGave(resps[j], reqs[i].auth.tok)

C5_AtMostOnce ==
    \A i, j \in ReqIdx :
      (i < j /\ reqs[i].step = reqs[j].step)
        => (scn = "TC005" /\ reqs[i].body # reqs[j].body)

\* C5 (as claimed): no step issues its request twice (the listing: once per
\* filter set), and a call that raised makes the scenario fail, the DELETE
\* included.
C5_NoRetryEveryErrorFails ==
    /\ C5_AtMostOnce
    /\ (Finished /\ \E i \in ReqIdx : resps[i].raises) => result = "failed"

\* C5 (amended): no step issues its request twice (the listing: once per
\* filter set), and a call that raised makes the scenario fail, unless it is
\* the cleanup DELETE, whose errors are suppressed.
C5_NoRetryErrorsFail ==
    /\ C5_AtMostOnce
    /\ (Finished /\ \E i \in ReqIdx : resps[i].raises /\ reqs[i].step # "delete")
         => result = "failed"

\* a scenario that failed on a call that raised after earlier calls went well
C5_Witness ==
    /\ result = "failed" /\ Len(reqs) >= 3
    /\ resps[Len(reqs)].raises /\ reqs[Len(reqs)].step # "delete"

\* C6: TC008 passes only if, after a create with new_product_payload and an
\* update of the created product with update_payload, the GET of that product
\* returned an object that holds update_payload's value under every one of the
\* nine fields; a body that is off in a single field fails the scenario.
C6_RoundTrip ==
    (scn = "TC008" /\ result = "passed") =>
      \E c, u, g \in ReqIdx :
        /\ c < u /\ u < g
        /\ reqs[c].step = "create" /\ reqs[c].body = TC008_new_product_payload
        /\ reqs[u].step = "update" /\ reqs[u].body = TC008_update_payload
        /\ reqs[g].step = "get" /\ reqs[g].id = reqs[u].id
        /\ ~resps[g].raises /\ IsDict(resps[g].body)
        /\ \A f \in {"name", "description", "category", "price", "unitType",
                     "unitValue", "stockQty", "imageUrl", "isActive"} :
             /\ Has(resps[g].body, f)
             /\ Item(resps[g].body, f) = Item(TC008_update_payload, f)

\* TC008 passed
C6_Witness ==
    /\ scn = "TC008" /\ result = "passed"
    /\ \E g \in ReqIdx : reqs[g].step = "get" /\ resps[g].status = 200

\* the product a detail response carries: bare, or under "product"
FetchedProduct(b) ==
    IF IsDict(b) /\ Has(b, "product") /\ IsDict(Item(b, "product"))
    THEN Item(b, "product")
    ELSE b

\* C7 (as claimed): TC009 passes only if the re-fetched product has the new
\* stockQty and every other field as it was created.
C7_OnlyStockChanges ==
    (scn = "TC009" /\ result = "passed") =>
      \E g \in ReqIdx :
        /\ reqs[g].step = "get" /\ ~resps[g].raises
        /\ IsDict(FetchedProduct(resps[g].body))
        /\ Get(FetchedProduct(resps[g].body), "stockQty") = TC009_new_stock_qty
        /\ \A f \in Keys(TC009_create_payload) \ {"stockQty"} :
             Get(FetchedProduct(resps[g].body), f) = Item(TC009_create_payload, f)

\* C7 (amended): TC009 passes only if, after the PATCH of the created product
\* with {stockQty: new}, the re-fetched product has stockQty equal to the new
\* value; the other fields are not compared.
C7_StockUpdated ==
    (scn = "TC009" /\ result = "passed") =>
      \E u, g \in ReqIdx :
        /\ u < g
        /\ reqs[u].step = "patch" /\ reqs[u].body = TC009_update_payload
        /\ reqs[g].step = "get" /\ reqs[g].id = reqs[u].id /\ ~resps[g].raises
        /\ IsDict(FetchedProduct(resps[g].body))
        /\ Has(FetchedProduct(resps[g].body), "stockQty")
        /\ Item(FetchedProduct(resps[g].body), "stockQty") = TC009_new_stock_qty

\* TC009 passed on a product whose name is no longer the one it was created with
C7_Witness ==
    /\ scn = "TC009" /\ result = "passed"
    /\ \E g \in ReqIdx :
         /\ reqs[g].step = "get" /\ IsDict(FetchedProduct(resps[g].body))
         /\ Get(FetchedProduct(resps[g].body), "name")
              # Item(TC009_create_payload, "name")

\* C8: TC005 passes only if every filter set was answered with HTTP 200 and a
\* JSON array, or a JSON object that wraps an array under "products" or "data".
C8_ArrayOrWrappedArray ==
    (scn = "TC005" /\ result = "passed") =>
      \A i \in ReqIdx :
        /\ ~resps[i].raises /\ resps[i].status = 200
        /\ \/ IsList(resps[i].body)
           \/ /\ IsDict(resps[i].body)
              /\ \E k \in {"products", "data"} :
                   Has(resps[i].body, k) /\ IsList(Item(resps[i].body, k))

\* C9: TC007 passes only if the create response echoes the submitted fields and
\* returns a product id (one the DELETE then uses).
C9_CreateReturnsId ==
    (scn = "TC007" /\ result = "passed") =>
      \E c \in ReqIdx :
        /\ reqs[c].step = "create" /\ ~resps[c].raises /\ IsDict(resps[c].body)
        /\ \A f \in Keys(TC007_product_data) :
             Get(resps[c].body, f) = Item(TC007_product_data, f)
        /\ Truthy(PyOr(Get(resps[c].body, "id"), Get(resps[c].body, "_id")))
        /\ \E d \in ReqIdx :
             /\ reqs[d].method = "DELETE"
             /\ reqs[d].id = PyOr(Get(resps[c].body, "id"), Get(resps[c].body, "_id"))

\* the lists a listing carries: the body, or what is under "products" / "data"
ListsOf(b) ==
    IF IsList(b) THEN {b}
    ELSE IF IsDict(b)
    THEN {Item(b, k) : k \in {k \in {"products", "data"} :
                                Has(b, k) /\ IsList(Item(b, k))}}
    ELSE {}
\* the product ids a listing carries
ListedIds(b) ==
    {id \in UNION {{Get(l.l[n], k) : n \in {n \in 1..Len(l.l) : IsDict(l.l[n])},
                                     k \in {"id", "_id", "productId"}} :
                   l \in ListsOf(b)} : Truthy(id)}

FieldOf(x, k) == IF IsDict(x) THEN Get(x, k) ELSE Null
\* the signup response is the one the contract asks for: status 200, success
\* true, the submitted name, email and phone under user, a non-empty string
\* under token
SignupAnswerGood(r) ==
    /\ ~r.raises
    /\ r.status = 200
    /\ FieldOf(r.body, "success") = Bool(TRUE)
    /\ \A f \in {"email", "phone", "name"} :
         FieldOf(FieldOf(r.body, "user"), f) = Item(TC001_payload, f)
    /\ IsStr(FieldOf(r.body, "token"))
    /\ FieldOf(r.body, "token") # Str("")

\* C11: TC001 fails if and only if the signup request raises, the status is
\* not 200, success is not true, user.email, user.phone or user.name differs
\* from the submitted value, or token is not a non-empty string; in every
\* other case it passes.
C11_SignupFailsIff ==
    (scn = "TC001" /\ Finished)
      => /\ Len(resps) = 1
         /\ (result = "failed") <=> ~SignupAnswerGood(resps[1])
         /\ (result = "passed") <=> SignupAnswerGood(resps[1])

\* a signup that was refused for its token alone: everything else was right
C11_Witness ==
    /\ scn = "TC001" /\ result = "failed"
    /\ ~resps[1].raises /\ resps[1].status = 200
    /\ FieldOf(resps[1].body, "success") = Bool(TRUE)
    /\ FieldOf(resps[1].body, "user") = TC001_EchoedUser
    /\ FieldOf(resps[1].body, "token") = Num(5)

\* the product a response carries: the object under "product" or under "data"
\* where there is one, else the body itself
EnvelopeProduct(b) ==
    IF IsDict(b) /\ Has(b, "product") /\ IsDict(Item(b, "product"))
    THEN Item(b, "product")
    ELSE IF IsDict(b) /\ Has(b, "data") /\ IsDict(Item(b, "data"))
    THEN Item(b, "data")
    ELSE b
\* response body b carries, bare or wrapped, a product with every value of want
Carries(b, want) ==
    /\ IsDict(EnvelopeProduct(b))
    /\ \A k \in Keys(want) : Get(EnvelopeProduct(b), k) = Item(want, k)
\* the values the detail of the mutated product is verified against
ExpectedDetail ==
    IF scn = "TC008" THEN TC008_update_payload ELSE TC009_update_payload

\* C12: envelope probing is uniform in TC007, TC008 and TC009: from every 200
\* create response that carries the created product with an id, bare or under
\* "product" or "data", the scenario extracts that id, and a 200 detail
\* response that carries the expected values, bare or wrapped, is not refused
\* for a missing or differing field.
C12_UniformEnvelope ==
    scn \in Creators =>
      \A i \in ReqIdx :
        /\ ( /\ reqs[i].step = "create"
             /\ ~resps[i].raises /\ resps[i].status = 200
             /\ Carries(resps[i].body, reqs[i].body)
             /\ Get(EnvelopeProduct(resps[i].body), "id") \in ProductIds )
           => product_id = Get(EnvelopeProduct(resps[i].body), "id")
        /\ ( /\ reqs[i].step = "get"
             /\ ~resps[i].raises /\ resps[i].status = 200
             /\ Carries(resps[i].body, ExpectedDetail) )
           => failure = NoFailure

\* the cleanup DELETE failed: it raised, or its status is neither 200 nor 204
CleanupFailed ==
    \E i \in ReqIdx :
      /\ reqs[i].method = "DELETE"
      /\ resps[i].raises \/ resps[i].status \notin {200, 204}

\* C13: whenever the cleanup DELETE of TC007, TC008 or TC009 returns a status
\* other than 200/204 or raises, the scenario has printed a warning by the
\* time it ends.
C13_FailedCleanupLogged ==
    (scn \in Creators /\ Finished /\ CleanupFailed) => warnings >= 1

\* every HTTP call returns or raises within its timeout and the scenario is
\* sequential code: a step that is ready is taken
LiveSpec == Spec /\ WF_vars(Next)

\* request i is step s and was answered, without raising, by a 2xx status
StageDone(i, s) ==
    /\ i \in ReqIdx /\ reqs[i].step \in s
    /\ ~resps[i].raises /\ resps[i].status \in 200..299
\* Authenticated(token), ResourceCreated(id), ResourceMutated and the verifying
\* GET, one after the other from the first request on, each carrying what the
\* stage before it gave
FourStagesInOrder ==
    /\ StageDone(1, {"login"})
    /\ StageDone(2, {"create"})
    /\ reqs[2].auth = Bearer(Get(resps[1].body, "token"))
    /\ StageDone(3, {"update", "patch"})
    /\ reqs[3].id = product_id
    /\ StageDone(4, {"get"})
    /\ reqs[4].id = product_id
    /\ \A i \in ReqIdx : i > 4 => reqs[i].step = "delete"
\* a verdict, once given, stays
VerdictKept == [][Finished => result' = result]_vars

\* C14 (as claimed): every run of every scenario ends in exactly one of
\* passed (Verified) and failed (Failed), and it passes only after
\* Authenticated, ResourceCreated and ResourceMutated, in that order and none
\* skipped.
C14_EveryRunFourStages ==
    /\ <>Finished
    /\ VerdictKept
    /\ [](result = "passed" => FourStagesInOrder)

\* C14 (amended): every run of every scenario ends in exactly one of passed
\* and failed and keeps that verdict; a run of TC008 or TC009, the scenarios
\* that have all the stages, passes only after login, create, PUT/PATCH and
\* GET were each answered with success, in that order and none skipped.
C14_TerminatesInOrder ==
    /\ <>Finished
    /\ VerdictKept
    /\ [](scn \in {"TC008", "TC009"} /\ result = "passed" => FourStagesInOrder)

\* a run of TC009 that went through the four stages, deleted and passed
C14_Witness ==
    /\ scn = "TC009" /\ result = "passed" /\ pc = "done"
    /\ Len(reqs) = 5 /\ reqs[5].method = "DELETE"

\* the product ids response body b carries: under "id" or "_id" of the body,
\* or under "id" of an object the body wraps
IdsCarried(b) ==
    IF ~IsDict(b) THEN {}
    ELSE ({Get(b, "id"), Get(b, "_id")}
            \cup {Get(Item(b, k), "id") :
                    k \in {k \in Keys(b) : IsDict(Item(b, k))}})
           \ {Null}
Mutating == {"PUT", "PATCH", "DELETE"}

\* C15: every PUT, PATCH and DELETE of a scenario targets the product id that
\* the scenario's own create response carried, none is issued when that
\* response carried no id, and a scenario issues at most one DELETE.
C15_OnlyOwnProduct ==
    /\ \A i \in ReqIdx :
         reqs[i].method \in Mutating =>
           \E c \in 1..(i - 1) :
             /\ reqs[c].step = "create" /\ ~resps[c].raises
             /\ reqs[i].id \in IdsCarried(resps[c].body)
    /\ Cardinality({i \in ReqIdx : reqs[i].method = "DELETE"}) <= 1

====
